---- MODULE Spec2Model ----
(***************************************************************************)
(* State-machine model of src/render/stream.rs: markdown_stream,           *)
(* raw_stream, markdown_stream_inner, gather_events, print_block,          *)
(* split_line_tail and need_rows, together with the terminal, the fragment *)
(* channel, the abort signal and the spinners they act on.                 *)
(*                                                                         *)
(* Text is a sequence of one-character strings.  Positions are 0-based as  *)
(* in the source; NONE stands for Option::None of str::find.               *)
(***************************************************************************)
EXTENDS Integers, Sequences, FiniteSets, TLC

\* ------------------------------------------------------------------ bounds
\* Most events waiting in the channel at once.
MaxQueue == 2
\* Most deltas one call of gather_events collects before its timeout fires.
MaxBatch == 2
\* Most changes of think_tag_mode during one stream.
MaxModeChanges == 1
\* Rows of the terminal window.
ScreenRows == 3
\* Largest display width of the short texts given to need_rows on its own.
MaxProbeWidth == 6
\* Display widths this far below and above 2^16 are given to need_rows.
ProbeMargin == 8
\* Largest number of columns given to need_rows on its own.
MaxProbeColumns == 4

\* ------------------------------------------------------- program constants
\* Width of the tab replacement, "    ".
TabWidth == 4
\* Cursor-position queries that may fail before the error is returned.
MaxAttempts == 3

NONE == -1

\* --------------------------------------------------------------- strings
OPEN == <<"<", "t", "h", "i", "n", "k", ">">>
CLOSE == <<"<", "/", "t", "h", "i", "n", "k", ">">>

Min(S) == CHOOSE x \in S : \A y \in S : x <= y

\* &text[a..b]
Slice(text, a, b) == SubSeq(text, a + 1, b)

\* &text[a..]
From(text, a) == SubSeq(text, a + 1, Len(text))

\* str::find: the 0-based position of the first occurrence of pat, or NONE.
Find(text, pat) ==
    LET m == Len(pat)
        hits == {i \in 0..(Len(text) - m) : Slice(text, i, i + m) = pat}
    IN IF hits = {} THEN NONE ELSE Min(hits)

\* str::contains for a single character.
Contains(text, ch) == \E i \in 1..Len(text) : text[i] = ch

RECURSIVE Join(_)
\* texts.join("")
Join(texts) == IF texts = <<>> THEN <<>> ELSE Head(texts) \o Join(Tail(texts))

RECURSIVE Repeat(_, _)
Repeat(ch, n) == IF n = 0 THEN <<>> ELSE <<ch>> \o Repeat(ch, n - 1)

RECURSIVE ReplaceTab(_)
\* text.replace('\t', "    ")
ReplaceTab(text) ==
    IF text = <<>> THEN <<>>
    ELSE (IF Head(text) = "\t" THEN Repeat(" ", TabWidth) ELSE <<Head(text)>>)
         \o ReplaceTab(Tail(text))

RECURSIVE Crlf(_)
\* .replace('\n', "\r\n")
Crlf(text) ==
    IF text = <<>> THEN <<>>
    ELSE (IF Head(text) = "\n" THEN <<"\r", "\n">> ELSE <<Head(text)>>)
         \o Crlf(Tail(text))

\* str::rsplit_once('\n'): the 0-based position of the last line break, or NONE.
RFindNl(text) ==
    LET hits == {i \in 0..(Len(text) - 1) : text[i + 1] = "\n"}
    IN IF hits = {} THEN NONE ELSE CHOOSE x \in hits : \A y \in hits : y <= x

\* A split that leaves the line break at the front of the tail.
split_line_tail_keep(text) ==
    LET p == RFindNl(text)
    IN IF p # NONE THEN <<Slice(text, 0, p), From(text, p)>>
       ELSE <<<<>>, text>>

\* Lines 445-451.
split_line_tail(text) ==
    LET p == RFindNl(text)
    IN IF p # NONE THEN <<Slice(text, 0, p), From(text, p + 1)>>
       ELSE <<<<>>, text>>

\* ---------------------------------------------------------- collaborators
ESC_DIM == "ESC[2m"
ESC_RESET == "ESC[0m"

\* utils::dimmed_text: the text wrapped in the "dimmed" style's escape codes.
dimmed_text(text) == <<ESC_DIM>> \o text \o <<ESC_RESET>>

\* MarkdownRender::render and render_line: a deterministic pure function of
\* the input, taken as the identity (plain text renders as itself).
render(text) == text

render_line(text) == text

\* Characters two columns wide.
Wide == {"W"}

CharWidth(ch) ==
    IF ch \in Wide THEN 2
    ELSE IF ch \in {"\n", "\r", "\t", ESC_DIM, ESC_RESET} THEN 0
    ELSE 1

RECURSIVE display_width(_)
\* textwrap::core::display_width: columns occupied, escape codes skipped.
display_width(text) ==
    IF text = <<>> THEN 0 ELSE CharWidth(Head(text)) + display_width(Tail(text))

U16 == 65536

\* Line 454: usize.max(1) as u16, on the display width of the text.
buffer_width(width) == (IF width < 1 THEN 1 ELSE width) % U16

\* u16::div_ceil
div_ceil(a, b) == (a + b - 1) \div b

\* Lines 453-456.
need_rows(text, columns) == div_ceil(buffer_width(display_width(text)), columns)

\* ---------------------------------------------------------------- terminal
\* The terminal is a list of rows of cells (scrollback included), the index
\* of the window's first row, the cursor (cx, cy) inside the window and the
\* current style.  A cell is <<character, dimmed>>.
BlankCell == <<" ", FALSE>>

EmptyScreen == [rows |-> <<<<>>>>, top |-> 0, cx |-> 0, cy |-> 0, dim |-> FALSE]

\* Rows exist down to the cursor's row.
PadRows(scr) ==
    LET need == scr.top + scr.cy + 1
    IN IF Len(scr.rows) >= need THEN scr
       ELSE [scr EXCEPT !.rows = scr.rows \o [i \in 1..(need - Len(scr.rows)) |-> <<>>]]

\* A line feed: one row down, scrolling the window at its last row.
LineFeed(scr) ==
    PadRows(IF scr.cy < ScreenRows - 1
            THEN [scr EXCEPT !.cy = scr.cy + 1]
            ELSE [scr EXCEPT !.top = scr.top + 1])

\* One printable character at the cursor, wrapping at the right margin.
PutChar(scr, ch, columns) ==
    LET w == CharWidth(ch)
        s0 == IF scr.cx + w > columns THEN LineFeed([scr EXCEPT !.cx = 0]) ELSE scr
        r == s0.top + s0.cy + 1
        old == s0.rows[r]
        padded == IF Len(old) >= s0.cx THEN old
                  ELSE old \o [i \in 1..(s0.cx - Len(old)) |-> BlankCell]
        cells == [i \in 1..w |-> IF i = 1 THEN <<ch, s0.dim>> ELSE <<"", s0.dim>>]
        new == SubSeq(padded, 1, s0.cx) \o cells
               \o SubSeq(padded, s0.cx + w + 1, Len(padded))
    IN [s0 EXCEPT !.rows[r] = new, !.cx = s0.cx + w]

\* style::Print of one character.  In raw mode a line feed keeps the column.
TermChar(scr, ch, columns, raw) ==
    IF ch = ESC_DIM THEN [scr EXCEPT !.dim = TRUE]
    ELSE IF ch = ESC_RESET THEN [scr EXCEPT !.dim = FALSE]
    ELSE IF ch = "\r" THEN [scr EXCEPT !.cx = 0]
    ELSE IF ch = "\t"
         THEN [scr EXCEPT !.cx = IF (scr.cx \div 8 + 1) * 8 < columns
                                 THEN (scr.cx \div 8 + 1) * 8 ELSE columns - 1]
    ELSE IF ch = "\n"
         THEN (IF raw THEN LineFeed(scr) ELSE LineFeed([scr EXCEPT !.cx = 0]))
    ELSE PutChar(scr, ch, columns)

RECURSIVE TermPrint(_, _, _, _)
\* style::Print of a text.  The test of the cursor's row (always inside the
\* window) makes TLC compute the screen after each character.
TermPrint(scr, text, columns, raw) ==
    IF text = <<>> THEN scr
    ELSE LET s1 == TermChar(scr, Head(text), columns, raw)
         IN IF s1.cy < ScreenRows
            THEN TermPrint(s1, Tail(text), columns, raw)
            ELSE s1

\* cursor::MoveTo(col, row)
TermMoveTo(scr, col, row) ==
    PadRows([scr EXCEPT !.cx = col,
                        !.cy = IF row > ScreenRows - 1 THEN ScreenRows - 1 ELSE row])

\* cursor::MoveLeft(n)
TermMoveLeft(scr, n) == [scr EXCEPT !.cx = IF scr.cx > n THEN scr.cx - n ELSE 0]

\* terminal::ScrollUp(n): the window's content moves up n rows.
TermScrollUp(scr, n) == PadRows([scr EXCEPT !.top = scr.top + n])

\* terminal::Clear(ClearType::FromCursorDown)
TermClear(scr) ==
    LET r == scr.top + scr.cy + 1
    IN [scr EXCEPT !.rows = SubSeq(scr.rows, 1, r - 1)
                            \o <<SubSeq(scr.rows[r], 1, scr.cx)>>]

\* One queued command applied to the terminal.
TermApply(scr, cmd, columns, raw) ==
    CASE cmd.op = "Print" -> TermPrint(scr, cmd.s, columns, raw)
      [] cmd.op = "MoveTo" -> TermMoveTo(scr, cmd.col, cmd.row)
      [] cmd.op = "MoveLeft" -> TermMoveLeft(scr, cmd.n)
      [] cmd.op = "ScrollUp" -> TermScrollUp(scr, cmd.n)
      [] cmd.op = "Clear" -> TermClear(scr)
      [] OTHER -> scr

RECURSIVE TermApplyAll(_, _, _, _)
\* The commands applied in order (the screen computed after each, as above).
TermApplyAll(scr, cmds, columns, raw) ==
    IF cmds = <<>> THEN scr
    ELSE LET s1 == TermApply(scr, Head(cmds), columns, raw)
         IN IF s1.cy < ScreenRows
            THEN TermApplyAll(s1, Tail(cmds), columns, raw)
            ELSE s1

\* cursor::position(): the <<col, row>> pairs the terminal may report.  With
\* the cursor past the last column after an exact-width line, a terminal
\* reports the last column of that row or column 0 of the next row.
CursorReports(scr, columns) ==
    IF scr.cx >= columns
    THEN {<<columns - 1, scr.cy>>}
         \cup (IF scr.cy + 1 <= ScreenRows - 1 THEN {<<0, scr.cy + 1>>} ELSE {})
    ELSE {<<scr.cx, scr.cy>>}

CmdPrint(text) == [op |-> "Print", s |-> text]
CmdMoveTo(col, row) == [op |-> "MoveTo", col |-> col, row |-> row]
CmdMoveLeft(n) == [op |-> "MoveLeft", n |-> n]
CmdScrollUp(n) == [op |-> "ScrollUp", n |-> n]
CmdClear == [op |-> "Clear"]
CmdFlush == [op |-> "Flush"]


\* ---------------------------------------------------------------- spinners
\* The spinners spawned so far, each <<label, running>>; a handle is the
\* spinner's index, 0 is Option::None.
spawn_spinner(spinners, label) == Append(spinners, <<label, TRUE>>)

\* Spinner::stop on Option::take(): None stops nothing.
stop(spinners, handle) ==
    IF handle = 0 THEN spinners
    ELSE [spinners EXCEPT ![handle] = <<spinners[handle][1], FALSE>>]

Running(spinners, label) ==
    \E i \in 1..Len(spinners) : spinners[i] = <<label, TRUE>>

\* ------------------------------------------------------- think-tag filter
\* The locals of one Text event of markdown_stream_inner: text, the state
\* carried over frames, the commands queued on the writer, and whether the
\* event ended in `continue`.
Queue(st, cmd) == [st EXCEPT !.cmds = Append(st.cmds, cmd)]

RECURSIVE ReplaceScan(_)
ReplaceScan(st) ==
    LET start == Find(st.text, OPEN)
        end_rel == Find(From(st.text, start), CLOSE)
    IN IF start = NONE THEN st
       ELSE IF end_rel # NONE
            THEN ReplaceScan([st EXCEPT !.text = Slice(st.text, 0, start)
                                                 \o From(st.text, start + end_rel + 8)])
            ELSE [st EXCEPT !.text = Slice(st.text, 0, start),
                            !.in_think_block = TRUE,
                            !.spinners = spawn_spinner(st.spinners, "Thinking"),
                            !.think_spinner = Len(st.spinners) + 1]

\* A Replace branch that leaves the spinner running at the closing tag.
ReplaceFilterNoStop(st) ==
    LET end_pos == Find(st.text, CLOSE)
    IN IF st.in_think_block
       THEN IF end_pos # NONE
            THEN ReplaceScan([st EXCEPT !.text = From(st.text, end_pos + 8),
                                        !.in_think_block = FALSE])
            ELSE [st EXCEPT !.cont = TRUE]
       ELSE ReplaceScan(st)

\* Lines 103-125.
ReplaceFilter(st) ==
    LET end_pos == Find(st.text, CLOSE)
    IN IF st.in_think_block
       THEN IF end_pos # NONE
            THEN ReplaceScan([st EXCEPT !.text = From(st.text, end_pos + 8),
                                        !.in_think_block = FALSE,
                                        !.spinners = stop(st.spinners, st.think_spinner),
                                        !.think_spinner = 0])
            ELSE [st EXCEPT !.cont = TRUE]
       ELSE ReplaceScan(st)

\* A scan that strips an unclosed opening tag without recording it.
HideScanForgets(st) ==
    LET start == Find(st.text, OPEN)
        end_rel == Find(From(st.text, start), CLOSE)
    IN IF start = NONE THEN st
       ELSE IF end_rel # NONE
            THEN [st EXCEPT !.text = Slice(st.text, 0, start)
                                     \o From(st.text, start + end_rel + 8)]
            ELSE [st EXCEPT !.text = Slice(st.text, 0, start)]

RECURSIVE HideScan(_)
HideScan(st) ==
    LET start == Find(st.text, OPEN)
        end_rel == Find(From(st.text, start), CLOSE)
    IN IF start = NONE THEN st
       ELSE IF end_rel # NONE
            THEN HideScan([st EXCEPT !.text = Slice(st.text, 0, start)
                                              \o From(st.text, start + end_rel + 8)])
            ELSE [st EXCEPT !.text = Slice(st.text, 0, start),
                            !.in_think_block = TRUE]

HideFilter(st) ==
    LET end_pos == Find(st.text, CLOSE)
    IN IF st.in_think_block
       THEN IF end_pos # NONE
            THEN HideScan([st EXCEPT !.text = From(st.text, end_pos + 8),
                                     !.in_think_block = FALSE])
            ELSE [st EXCEPT !.cont = TRUE]
       ELSE HideScan(st)

\* "Flush buffer before printing think block": the pending buffer is rendered,
\* printed and reset.
FlushBuffer(st) ==
    IF st.buffer # <<>>
    THEN [Queue(st, CmdPrint(render_line(st.buffer))) EXCEPT !.buffer = <<>>,
                                                             !.buffer_rows = 1]
    ELSE st

RECURSIVE ShowScan(_)
ShowScan(st) ==
    LET start == Find(st.text, OPEN)
        end_rel == Find(From(st.text, start), CLOSE)
        pre_content == Slice(st.text, 0, start)
    IN IF start = NONE THEN st
       ELSE IF end_rel # NONE
            THEN LET s1 == IF pre_content # <<>>
                           THEN Queue(FlushBuffer(st), CmdPrint(pre_content))
                           ELSE st
                     content_start == start + 7
                     content_end == start + end_rel
                     content == Slice(st.text, content_start, content_end)
                     s2 == Queue(s1, CmdPrint(Crlf(dimmed_text(content))))
                 IN ShowScan([s2 EXCEPT !.text = From(st.text, content_end + 8)])
            ELSE LET s1 == FlushBuffer(st)
                     s2 == IF pre_content # <<>> THEN Queue(s1, CmdPrint(pre_content))
                           ELSE s1
                     content == From(st.text, start + 7)
                     s3 == Queue(Queue(s2, CmdPrint(Crlf(dimmed_text(content)))), CmdFlush)
                 IN [s3 EXCEPT !.in_think_block = TRUE, !.text = <<>>]

ShowFilter(st) ==
    LET end_pos == Find(st.text, CLOSE)
    IN IF st.in_think_block
       THEN IF end_pos # NONE
            THEN LET content == Slice(st.text, 0, end_pos)
                     s1 == Queue(st, CmdPrint(Crlf(dimmed_text(content))))
                 IN ShowScan([s1 EXCEPT !.text = From(st.text, end_pos + 8),
                                        !.in_think_block = FALSE])
            ELSE [Queue(Queue(st, CmdPrint(Crlf(dimmed_text(st.text)))), CmdFlush)
                    EXCEPT !.cont = TRUE]
       ELSE ShowScan(st)

RECURSIVE DefaultScan(_)
DefaultScan(st) ==
    LET start == Find(st.text, OPEN)
        end_rel == Find(From(st.text, start), CLOSE)
        pre_content == Slice(st.text, 0, start)
    IN IF start = NONE THEN st
       ELSE IF end_rel # NONE
            THEN LET s1 == IF pre_content # <<>>
                           THEN Queue(FlushBuffer(st), CmdPrint(pre_content))
                           ELSE st
                     end == start + end_rel + Len(CLOSE)
                     content == Slice(st.text, start, end)
                     s2 == Queue(s1, CmdPrint(Crlf(dimmed_text(content))))
                 IN DefaultScan([s2 EXCEPT !.text = From(st.text, end)])
            ELSE LET s1 == FlushBuffer(st)
                     s2 == IF pre_content # <<>> THEN Queue(s1, CmdPrint(pre_content))
                           ELSE s1
                     content == From(st.text, start)
                     s3 == Queue(Queue(s2, CmdPrint(Crlf(dimmed_text(content)))), CmdFlush)
                 IN [s3 EXCEPT !.in_think_block = TRUE, !.text = <<>>]

DefaultFilter(st) ==
    LET end_pos == Find(st.text, CLOSE)
    IN IF st.in_think_block
       THEN IF end_pos # NONE
            THEN LET content == Slice(st.text, 0, end_pos + Len(CLOSE))
                     s1 == Queue(st, CmdPrint(Crlf(dimmed_text(content))))
                 IN DefaultScan([s1 EXCEPT !.text = From(st.text, end_pos + Len(CLOSE)),
                                           !.in_think_block = FALSE])
            ELSE [Queue(Queue(st, CmdPrint(Crlf(dimmed_text(st.text)))), CmdFlush)
                    EXCEPT !.cont = TRUE]
       ELSE DefaultScan(st)

\* The branch of markdown_stream_inner taken for the mode read from the
\* configuration.
ThinkFilter(think_tag_mode, st) ==
    CASE think_tag_mode = "Replace" -> ReplaceFilter(st)
      [] think_tag_mode = "Hide" -> HideFilter(st)
      [] think_tag_mode = "Show" -> ShowFilter(st)
      [] think_tag_mode = "Default" -> DefaultFilter(st)

\* --------------------------------------------------------------- renderer
RECURSIVE SplitNl(_)
\* str::split('\n')
SplitNl(text) ==
    LET p == Find(text, <<"\n">>)
    IN IF p = NONE THEN <<text>>
       ELSE <<Slice(text, 0, p)>> \o SplitNl(From(text, p + 1))

RECURSIVE BlockCmds(_, _)
BlockCmds(lines, columns) ==
    IF lines = <<>> THEN <<>>
    ELSE <<CmdPrint(Head(lines)), CmdPrint(<<"\n">>), CmdMoveLeft(columns)>>
         \o BlockCmds(Tail(lines), columns)

\* print_block: the commands queued and the number of lines, Ok(num).
print_block(text, columns) ==
    [cmds |-> BlockCmds(SplitNl(text), columns), num |-> Len(SplitNl(text))]

\* Lines 287-330 for a non-empty text, the cursor reported at <<col, row0>>.
RenderFrame(st, col, row0, columns) ==
    LET row == IF col = 0 /\ row0 > 0 /\ display_width(st.buffer) = columns
               THEN row0 - 1 ELSE row0
        anchor == IF row + 1 >= st.buffer_rows
                  THEN <<CmdMoveTo(0, row + 1 - st.buffer_rows)>>
                  ELSE <<CmdScrollUp(st.buffer_rows - row - 1), CmdMoveTo(0, 0)>>
        hasNl == Contains(st.text, "\n")
        ht == split_line_tail(st.buffer \o st.text)
        block == IF hasNl THEN print_block(render(ht[1]), columns).cmds ELSE <<>>
        buffer == IF hasNl THEN ht[2] ELSE st.buffer \o st.text
        output == render_line(buffer)
        oht == split_line_tail(output)
        pb == print_block(oht[1], columns)
        tailCmds == IF Contains(output, "\n")
                    THEN pb.cmds \o <<CmdPrint(oht[2])>>
                    ELSE <<CmdPrint(output)>>
        buffer_rows == IF Contains(output, "\n")
                       THEN pb.num + need_rows(oht[2], columns)
                       ELSE need_rows(output, columns)
    IN [st EXCEPT !.cmds = anchor \o <<CmdClear>> \o block \o tailCmds \o <<CmdFlush>>,
                  !.buffer = buffer,
                  !.buffer_rows = buffer_rows,
                  !.block = block]


\* ------------------------------------------------------------------ state
VARIABLES
    fn,              \* the entry point called: "markdown_stream" or "raw_stream"
    pc,              \* the position of the consumer task; "retN" after the
                     \* return made by line N
    ret,             \* what the entry point returned: "none", "Ok" or "Err"
    inner_ret,       \* what markdown_stream_inner returned (`ret` of line 29)
    raw_mode,        \* whether the terminal is in raw mode
    columns,         \* terminal::size()?.0
    abort,           \* abort_signal.aborted()
    mode,            \* config.read().think_tag_mode
    mode_changes,    \* number of changes of the mode so far
    stream,          \* the text the producer sends, delta by delta
    cuts,            \* the positions of stream where a delta may end
    sent,            \* characters of stream sent so far
    done_sent,       \* whether the producer has sent Done
    tx_open,         \* whether the sender half of the channel is alive
    chan,            \* events in flight in the channel
    texts,           \* gather_events: texts
    done,            \* gather_events: done
    events,          \* the events of the frame not yet processed by the for loop
    buffer, buffer_rows, in_think_block,
    spinner, think_spinner,
    spinners,        \* every spinner spawned, with whether it still runs
    screen,          \* the terminal
    unflushed,       \* whether something queued on the writer is not flushed yet
    newline_emitted, \* whether markdown_stream executed println!()
    \* history of the run, read by the properties only
    received,        \* concatenation of the Text events received so far
    framed,          \* concatenation of the frame texts gather_events returned
    handed,          \* concatenation of the final text that reached line 274
    finalized,       \* text printed as complete lines by line 310
    written,         \* the characters ever printed
    aligned,         \* no frame so far ended inside the stream's tags
    start_abort,     \* whether abort was set when the loop's function started
    abort_frames,    \* frames gathered to the end since abort was set
    consumed,        \* events taken from the channel
    probe            \* need_rows called on its own: the display width of its
                     \* text, its columns, and the rows it returned

vars == <<fn, pc, ret, inner_ret, raw_mode, columns, abort, mode, mode_changes,
          stream, cuts, sent, done_sent, tx_open, chan, texts, done, events,
          buffer, buffer_rows, in_think_block, spinner, think_spinner, spinners,
          screen, unflushed, newline_emitted,
          received, framed, handed, finalized, written, aligned, start_abort,
          abort_frames, consumed, probe>>

producer == <<stream, cuts, sent, done_sent, tx_open>>
render_state == <<buffer, buffer_rows, in_think_block>>
term == <<screen, unflushed, written>>
history == <<handed, finalized>>

Modes == {"Default", "Hide", "Replace", "Show"}

Text(v) == [type |-> "Text", text |-> v]
Done == [type |-> "Done"]

\* "A<think>B</think>C"
ATBC == <<"A">> \o OPEN \o <<"B">> \o CLOSE \o <<"C">>

\* A scenario is a text and the positions where the producer may end a delta.
Scenario(text, at) == [text |-> text, cuts |-> at \cup {Len(text)}]

\* The positions of ATBC between its text and its tags.
TagBounds == {1, 8, 9, 17}

\* Positions inside "<think>" and inside "</think>" of ATBC.
InTag == {3, 12}

\* A stream without tags: a tab, line breaks, a line longer than the width.
Plain == <<"a", "\t", "\n", "b", "\n", "c">>

\* The streams of the scenarios.
Streams == {Scenario(ATBC, TagBounds), Scenario(Plain, 1..(Len(Plain) - 1))}

Widths == {4}

\* need_rows is not called on its own.
NoProbe == [width |-> 0, columns |-> 1, rows |-> NONE]

InitWith(fns, modes, streams, widths, aborts) ==
    /\ fn \in fns
    /\ pc = "start"
    /\ ret = "none"
    /\ inner_ret = "none"
    /\ raw_mode = FALSE
    /\ columns \in widths
    /\ abort \in aborts
    /\ start_abort = FALSE
    /\ mode \in modes
    /\ mode_changes = 0
    /\ \E sc \in streams : stream = sc.text /\ cuts = sc.cuts
    /\ sent = 0
    /\ done_sent = FALSE
    /\ tx_open = TRUE
    /\ chan = <<>>
    /\ texts = <<>>
    /\ done = FALSE
    /\ events = <<>>
    /\ buffer = <<>>
    /\ buffer_rows = 1
    /\ in_think_block = FALSE
    /\ spinner = 0
    /\ think_spinner = 0
    /\ spinners = <<>>
    /\ screen = EmptyScreen
    /\ unflushed = FALSE
    /\ newline_emitted = FALSE
    /\ received = <<>>
    /\ framed = <<>>
    /\ handed = <<>>
    /\ finalized = <<>>
    /\ written = {}
    /\ aligned = TRUE
    /\ abort_frames = 0
    /\ consumed = 0

Init ==
    /\ InitWith({"markdown_stream", "raw_stream"}, Modes, Streams, Widths, BOOLEAN)
    /\ probe = NoProbe

\* ----------------------------------------------------------- environment
\* The producer sends the next delta of the stream.
Send ==
    /\ tx_open /\ ~done_sent
    /\ Len(chan) < MaxQueue
    /\ \E n \in 1..Len(stream) :
          /\ sent + n \in cuts
          /\ chan' = Append(chan, Text(SubSeq(stream, sent + 1, sent + n)))
          /\ sent' = sent + n
    /\ UNCHANGED <<fn, pc, ret, inner_ret, raw_mode, columns, abort, mode,
                   mode_changes, stream, cuts, done_sent, tx_open, texts, done, events,
                   render_state, spinner, think_spinner, spinners, term,
                   newline_emitted, received, history, aligned, start_abort,
                   abort_frames, consumed,
                   framed, probe>>

\* The producer sends Done after the last delta.
SendDone ==
    /\ tx_open /\ ~done_sent /\ sent = Len(stream)
    /\ Len(chan) < MaxQueue + 1
    /\ chan' = Append(chan, Done)
    /\ done_sent' = TRUE
    /\ UNCHANGED <<fn, pc, ret, inner_ret, raw_mode, columns, abort, mode,
                   mode_changes, stream, cuts, sent, tx_open, texts, done, events,
                   render_state, spinner, think_spinner, spinners, term,
                   newline_emitted, received, history, aligned, start_abort,
                   abort_frames, consumed,
                   framed, probe>>

\* The sender is dropped, with or without a Done sent before.
CloseTx ==
    /\ tx_open
    /\ tx_open' = FALSE
    /\ UNCHANGED <<fn, pc, ret, inner_ret, raw_mode, columns, abort, mode,
                   mode_changes, stream, cuts, sent, done_sent, chan, texts, done, events,
                   render_state, spinner, think_spinner, spinners, term,
                   newline_emitted, received, history, aligned, start_abort,
                   abort_frames, consumed,
                   framed, probe>>

\* Another holder of the abort signal sets it (Ctrl-C).
SetAbort ==
    /\ ~abort /\ ret = "none"
    /\ abort' = TRUE
    /\ UNCHANGED <<fn, pc, ret, inner_ret, raw_mode, columns, mode,
                   mode_changes, producer, chan, texts, done, events,
                   render_state, spinner, think_spinner, spinners, term,
                   newline_emitted, received, history, aligned, start_abort,
                   abort_frames, consumed,
                   framed, probe>>

\* The shared configuration is written while the stream runs.  The mode is
\* read once per frame (line 101), so a write at any moment is observed as a
\* write made while gather_events waits.
ChangeMode ==
    /\ pc = "gather"
    /\ mode_changes < MaxModeChanges
    /\ \E m \in Modes \ {mode} : mode' = m
    /\ mode_changes' = mode_changes + 1
    /\ UNCHANGED <<fn, pc, ret, inner_ret, raw_mode, columns, abort,
                   producer, chan, texts, done, events,
                   render_state, spinner, think_spinner, spinners, term,
                   newline_emitted, received, history, aligned, start_abort,
                   abort_frames, consumed,
                   framed, probe>>


\* ------------------------------------------------------- markdown_stream
config == <<fn, columns, mode, mode_changes>>
gather == <<texts, done, events>>
handles == <<spinner, think_spinner, spinners>>

\* Line 25: enable_raw_mode()?
EnableRawMode ==
    /\ fn = "markdown_stream" /\ pc = "start"
    /\ \E ok \in BOOLEAN :
          IF ok THEN /\ raw_mode' = TRUE
                     /\ pc' = "size"
                     /\ ret' = ret
                ELSE /\ raw_mode' = raw_mode
                     /\ pc' = "ret25"
                     /\ ret' = "Err"
    /\ UNCHANGED <<config, start_abort, inner_ret, abort, producer, chan, gather, render_state,
                   handles, term, newline_emitted, received, history, aligned,
                   abort_frames, consumed,
                   framed, probe>>

\* Line 27: terminal::size()?.0
TerminalSize ==
    /\ pc = "size"
    /\ \E ok \in BOOLEAN :
          IF ok THEN /\ pc' = "inner"
                     /\ ret' = ret
                ELSE /\ pc' = "ret27"
                     /\ ret' = "Err"
    /\ UNCHANGED <<config, start_abort, inner_ret, raw_mode, abort, producer, chan, gather,
                   render_state, handles, term, newline_emitted, received, history,
                   aligned, abort_frames, consumed,
                   framed, probe>>

\* Lines 79-85: the locals of markdown_stream_inner and the "Generating" spinner.
InnerStart ==
    /\ start_abort' = abort
    /\ pc = "inner"
    /\ buffer' = <<>>
    /\ buffer_rows' = 1
    /\ in_think_block' = FALSE
    /\ think_spinner' = 0
    /\ spinners' = spawn_spinner(spinners, "Generating")
    /\ spinner' = Len(spinners) + 1
    /\ pc' = "loop_head"
    /\ UNCHANGED <<config, ret, inner_ret, raw_mode, abort, producer, chan, gather,
                   term, newline_emitted, received, history, aligned, abort_frames,
                   consumed,
                   framed, probe>>

\* A head of 'outer that gathers a frame without reading the abort signal.
LoopHeadGathers ==
    /\ pc = "loop_head"
    /\ pc' = "gather"
    /\ texts' = <<>>
    /\ done' = FALSE
    /\ UNCHANGED <<config, start_abort, ret, inner_ret, raw_mode, abort, producer, chan, events,
                   render_state, handles, term, newline_emitted, received, history,
                   aligned, abort_frames, consumed,
                   framed, probe>>

\* Lines 88-91: the abort check at the head of 'outer, then gather_events.
LoopHead ==
    /\ pc = "loop_head"
    /\ IF abort THEN /\ pc' = "cleanup"
                     /\ UNCHANGED <<texts, done>>
               ELSE /\ pc' = "gather"
                    /\ texts' = <<>>
                    /\ done' = FALSE
    /\ UNCHANGED <<config, start_abort, ret, inner_ret, raw_mode, abort, producer, chan, events,
                   render_state, handles, term, newline_emitted, received, history,
                   aligned, abort_frames, consumed,
                   framed, probe>>

\* A gather_events that places Done before the coalesced text.
GatherResultDoneFirst(txts, dn) ==
    (IF dn THEN <<Done>> ELSE <<>>)
    \o (IF txts # <<>> THEN <<Text(Join(txts))>> ELSE <<>>)

\* A gather_events that returns Done alone when Done ends the window.
GatherResultDoneOnly(txts, dn) ==
    IF dn THEN <<Done>>
    ELSE (IF txts # <<>> THEN <<Text(Join(txts))>> ELSE <<>>)

\* Lines 421-428: the frame gather_events returns.
GatherResult(txts, dn) ==
    (IF txts # <<>> THEN <<Text(Join(txts))>> ELSE <<>>)
    \o (IF dn THEN <<Done>> ELSE <<>>)

\* Whether position p of text lies strictly inside a tag literal of it.
InsideTag(text, p) ==
    \E i \in 0..Len(text) :
        \/ (i + Len(OPEN) <= Len(text) /\ Slice(text, i, i + Len(OPEN)) = OPEN
            /\ i < p /\ p < i + Len(OPEN))
        \/ (i + Len(CLOSE) <= Len(text) /\ Slice(text, i, i + Len(CLOSE)) = CLOSE
            /\ i < p /\ p < i + Len(CLOSE))

\* gather_events returns to the for loop of line 91.
GatherReturn(txts, dn) ==
    /\ events' = GatherResult(txts, dn)
    /\ pc' = "for"
    /\ probe' = probe
    /\ abort_frames' = IF abort THEN abort_frames + 1 ELSE abort_frames
    /\ aligned' = (aligned /\ ~InsideTag(stream, Len(received)))
    /\ framed' = framed \o Join([i \in 1..Len(GatherResult(txts, dn)) |->
                                    IF GatherResult(txts, dn)[i].type = "Text"
                                    THEN GatherResult(txts, dn)[i].text ELSE <<>>])

\* Lines 409-411: rx.recv() yields a Text.
GatherRecvText ==
    /\ pc = "gather"
    /\ chan # <<>> /\ Head(chan).type = "Text"
    /\ Len(texts) < MaxBatch
    /\ texts' = Append(texts, Head(chan).text)
    /\ chan' = Tail(chan)
    /\ received' = received \o Head(chan).text
    /\ consumed' = consumed + 1
    /\ UNCHANGED <<config, start_abort, pc, ret, inner_ret, raw_mode, abort, producer, done,
                   events, render_state, handles, term, newline_emitted, history,
                   aligned, abort_frames,
                   framed, probe>>

\* Lines 412-415: rx.recv() yields Done, which ends the batch.
GatherRecvDone ==
    /\ pc = "gather"
    /\ chan # <<>> /\ Head(chan).type = "Done"
    /\ done' = TRUE
    /\ chan' = Tail(chan)
    /\ consumed' = consumed + 1
    /\ GatherReturn(texts, TRUE)
    /\ UNCHANGED <<config, start_abort, ret, inner_ret, raw_mode, abort, producer, texts,
                   render_state, handles, term, newline_emitted, received, history>>

\* Line 409: rx.recv() yields None, the channel is closed and drained.
GatherClosed ==
    /\ pc = "gather"
    /\ chan = <<>> /\ ~tx_open
    /\ GatherReturn(texts, done)
    /\ UNCHANGED <<config, start_abort, ret, inner_ret, raw_mode, abort, producer, chan, texts,
                   done, render_state, handles, term, newline_emitted, received,
                   history, consumed>>

\* Line 419: the 50 ms sleep ends first.
GatherTimeout ==
    /\ pc = "gather"
    /\ GatherReturn(texts, done)
    /\ UNCHANGED <<config, start_abort, ret, inner_ret, raw_mode, abort, producer, chan, texts,
                   done, render_state, handles, term, newline_emitted, received,
                   history, consumed>>


\* ------------------------------------------------- markdown_stream_inner
RECURSIVE PrintedText(_)
\* The characters a list of commands prints, in order.
PrintedText(cmds) ==
    IF cmds = <<>> THEN <<>>
    ELSE (IF Head(cmds).op = "Print" THEN Head(cmds).s ELSE <<>>)
         \o PrintedText(Tail(cmds))

CharsOf(text) == {text[i] : i \in 1..Len(text)}

RECURSIVE Unflushed(_, _)
\* Whether the writer holds unflushed output after the commands.
Unflushed(u, cmds) ==
    IF cmds = <<>> THEN u
    ELSE Unflushed(Head(cmds).op # "Flush", Tail(cmds))

\* The writer takes the commands: the terminal, the flush state, the history.
WriteAll(cmds) ==
    /\ screen' = TermApplyAll(screen, cmds, columns, raw_mode)
    /\ unflushed' = Unflushed(unflushed, cmds)
    /\ written' = written \cup CharsOf(PrintedText(cmds))

\* Lines 278-285: cursor::position() fails `fails` times in a row.
CursorQuery(fails) == IF fails > MaxAttempts THEN "Err" ELSE "Ok"

\* A loop that reads the abort signal after each event.
AfterEventAbort(type, aborted) ==
    IF type = "Done" \/ aborted THEN "cleanup" ELSE "for"

\* Where the for loop of line 91 goes after an event: on to the next event
\* after a Text, out of 'outer after Done.  The abort signal is not read.
AfterEvent(type, aborted) == IF type = "Done" THEN "cleanup" ELSE "for"

\* The locals before the filter of a Text event (lines 92-101).
FrameStart(text) ==
    [text |-> ReplaceTab(text),
     in_think_block |-> in_think_block,
     think_spinner |-> think_spinner,
     spinners |-> stop(spinners, spinner),
     buffer |-> buffer,
     buffer_rows |-> buffer_rows,
     cmds |-> <<>>,
     block |-> <<>>,
     cont |-> FALSE]

\* The locals carried to the next event.
Commit(st) ==
    /\ buffer' = st.buffer
    /\ buffer_rows' = st.buffer_rows
    /\ in_think_block' = st.in_think_block
    /\ think_spinner' = st.think_spinner
    /\ spinners' = st.spinners
    /\ spinner' = 0

\* Lines 92-331: one Text event, filtered and rendered, with no I/O failure.
ProcessText ==
    /\ pc = "for"
    /\ events # <<>> /\ Head(events).type = "Text"
    /\ LET st1 == ThinkFilter(mode, FrameStart(Head(events).text))
           scr1 == TermApplyAll(screen, st1.cmds, columns, raw_mode)
           renders == ~st1.cont /\ st1.text # <<>>
       IN \/ /\ ~renders
             /\ Commit(st1)
             /\ WriteAll(st1.cmds)
             /\ handed' = (IF st1.cont THEN handed ELSE handed \o st1.text)
             /\ finalized' = finalized
          \/ /\ renders
             /\ \E pos \in CursorReports(scr1, columns), fails \in 0..MaxAttempts :
                   LET st2 == RenderFrame([st1 EXCEPT !.cmds = <<>>],
                                          pos[1], pos[2], columns)
                   IN /\ CursorQuery(fails) = "Ok"
                      /\ Commit(st2)
                      /\ WriteAll(st1.cmds \o st2.cmds)
                      /\ handed' = handed \o st1.text
                      /\ finalized' = finalized \o PrintedText(st2.block)
    /\ events' = Tail(events)
    /\ pc' = AfterEvent("Text", abort)
    /\ UNCHANGED <<config, start_abort, ret, inner_ret, raw_mode, abort, producer, chan, texts,
                   done, newline_emitted, received, aligned, abort_frames, consumed,
                   framed, probe>>

\* Lines 92-331 with an I/O failure returned by `?`: the first write of the
\* filter fails ("filter"), the cursor query fails after its retries
\* ("cursor"), or the last flush fails ("flush").
ProcessTextErr ==
    /\ pc = "for"
    /\ events # <<>> /\ Head(events).type = "Text"
    /\ LET st1 == ThinkFilter(mode, FrameStart(Head(events).text))
           scr1 == TermApplyAll(screen, st1.cmds, columns, raw_mode)
           renders == ~st1.cont /\ st1.text # <<>>
       IN \/ /\ st1.cmds # <<>>
             /\ Commit(FrameStart(Head(events).text))
             /\ WriteAll(<<>>)
             /\ UNCHANGED history
          \/ /\ renders
             /\ CursorQuery(MaxAttempts + 1) = "Err"
             /\ Commit(st1)
             /\ WriteAll(st1.cmds)
             /\ handed' = handed \o st1.text
             /\ finalized' = finalized
          \/ /\ renders
             /\ \E pos \in CursorReports(scr1, columns) :
                   LET st2 == RenderFrame([st1 EXCEPT !.cmds = <<>>],
                                          pos[1], pos[2], columns)
                   IN /\ Commit(st2)
                      /\ WriteAll(st1.cmds \o SubSeq(st2.cmds, 1, Len(st2.cmds) - 1))
                      /\ handed' = handed \o st1.text
                      /\ finalized' = finalized \o PrintedText(st2.block)
    /\ inner_ret' = "Err"
    /\ pc' = "disable_raw"
    /\ UNCHANGED <<config, start_abort, ret, raw_mode, abort, producer, chan, gather,
                   newline_emitted, received, aligned, abort_frames, consumed,
                   framed, probe>>

\* Lines 92-94 and 332-334: Done leaves 'outer.
ProcessDone ==
    /\ pc = "for"
    /\ events # <<>> /\ Head(events).type = "Done"
    /\ spinners' = stop(spinners, spinner)
    /\ spinner' = 0
    /\ events' = Tail(events)
    /\ pc' = AfterEvent("Done", abort)
    /\ UNCHANGED <<config, start_abort, ret, inner_ret, raw_mode, abort, producer, chan, texts,
                   done, render_state, think_spinner, term, newline_emitted,
                   received, history, aligned, abort_frames, consumed,
                   framed, probe>>

\* Lines 338-340: poll_abort_signal(abort_signal)? once the frame's events are
\* processed: Ok(true) on a Ctrl-C read (which sets the signal), Ok(false),
\* or the error of the event poll.
PollAbort ==
    /\ pc = "for" /\ events = <<>>
    /\ \E r \in {"true", "false", "err"} :
          /\ abort' = (abort \/ r = "true")
          /\ pc' = CASE r = "true" -> "cleanup"
                     [] r = "false" -> "loop_head"
                     [] r = "err" -> "disable_raw"
          /\ inner_ret' = IF r = "err" THEN "Err" ELSE inner_ret
    /\ UNCHANGED <<config, start_abort, ret, raw_mode, producer, chan, gather, render_state,
                   handles, term, newline_emitted, received, history, aligned,
                   abort_frames, consumed,
                   framed, probe>>

\* Lines 343-349: both spinners are stopped and Ok(()) is returned.
Cleanup ==
    /\ pc = "cleanup"
    /\ spinners' = stop(stop(spinners, spinner), think_spinner)
    /\ spinner' = 0
    /\ think_spinner' = 0
    /\ inner_ret' = "Ok"
    /\ pc' = "disable_raw"
    /\ UNCHANGED <<config, start_abort, ret, raw_mode, abort, producer, chan, gather,
                   render_state, term, newline_emitted, received, history, aligned,
                   abort_frames, consumed,
                   framed, probe>>

\* Line 31: disable_raw_mode()?
DisableRawMode ==
    /\ pc = "disable_raw"
    /\ \E ok \in BOOLEAN :
          IF ok THEN /\ raw_mode' = FALSE
                     /\ pc' = "finish"
                     /\ ret' = ret
                ELSE /\ raw_mode' = raw_mode
                     /\ pc' = "ret31"
                     /\ ret' = "Err"
    /\ UNCHANGED <<config, start_abort, inner_ret, abort, producer, chan, gather, render_state,
                   handles, term, newline_emitted, received, history, aligned,
                   abort_frames, consumed,
                   framed, probe>>

\* Lines 33-36: println!() on an error, then ret.
Return ==
    /\ pc = "finish"
    /\ newline_emitted' = (inner_ret = "Err")
    /\ screen' = IF inner_ret = "Err"
                 THEN TermPrint(screen, <<"\n">>, columns, raw_mode)
                 ELSE screen
    /\ ret' = inner_ret
    /\ pc' = "ret36"
    /\ UNCHANGED <<config, start_abort, inner_ret, raw_mode, abort, producer, chan, gather,
                   render_state, handles, unflushed, written,
                   received, history, aligned, abort_frames, consumed,
                   framed, probe>>


\* ------------------------------------------------------------ raw_stream
\* Line 43: the "Generating" spinner.
RawStart ==
    /\ start_abort' = abort
    /\ fn = "raw_stream" /\ pc = "start"
    /\ spinners' = spawn_spinner(spinners, "Generating")
    /\ spinner' = Len(spinners) + 1
    /\ pc' = "raw_head"
    /\ UNCHANGED <<config, ret, inner_ret, raw_mode, abort, producer, chan, gather,
                   render_state, think_spinner, term, newline_emitted, received,
                   history, aligned, abort_frames, consumed,
                   framed, probe>>

\* Lines 46-48: the abort check at the head of the loop.
RawHead ==
    /\ pc = "raw_head"
    /\ pc' = IF abort THEN "raw_exit" ELSE "raw_recv"
    /\ UNCHANGED <<config, start_abort, ret, inner_ret, raw_mode, abort, producer, chan, gather,
                   render_state, handles, term, newline_emitted, received, history,
                   aligned, abort_frames, consumed,
                   framed, probe>>

\* Lines 49-58: rx.recv().await yields a Text, printed verbatim and flushed
\* (or the flush fails and its error is returned).
RawRecvText ==
    /\ pc = "raw_recv"
    /\ chan # <<>> /\ Head(chan).type = "Text"
    /\ chan' = Tail(chan)
    /\ consumed' = consumed + 1
    /\ received' = received \o Head(chan).text
    /\ spinners' = stop(spinners, spinner)
    /\ spinner' = 0
    /\ \E ok \in BOOLEAN :
          /\ WriteAll(IF ok THEN <<CmdPrint(Head(chan).text), CmdFlush>>
                      ELSE <<CmdPrint(Head(chan).text)>>)
          /\ pc' = IF ok THEN "raw_head" ELSE "ret57"
          /\ ret' = IF ok THEN ret ELSE "Err"
    /\ UNCHANGED <<config, start_abort, inner_ret, raw_mode, abort, producer, gather,
                   render_state, think_spinner, newline_emitted, history, aligned,
                   abort_frames,
                   framed, probe>>

\* Lines 49-52 and 59-61: rx.recv().await yields Done.
RawRecvDone ==
    /\ pc = "raw_recv"
    /\ chan # <<>> /\ Head(chan).type = "Done"
    /\ chan' = Tail(chan)
    /\ consumed' = consumed + 1
    /\ spinners' = stop(spinners, spinner)
    /\ spinner' = 0
    /\ pc' = "raw_exit"
    /\ UNCHANGED <<config, start_abort, ret, inner_ret, raw_mode, abort, producer, gather,
                   render_state, think_spinner, term, newline_emitted, received,
                   history, aligned, abort_frames,
                   framed, probe>>

\* Line 49: rx.recv().await yields None on the closed, drained channel; the
\* `if let` is skipped and the loop goes round.
RawRecvNone ==
    /\ pc = "raw_recv"
    /\ chan = <<>> /\ ~tx_open
    /\ pc' = "raw_head"
    /\ UNCHANGED <<config, start_abort, ret, inner_ret, raw_mode, abort, producer, chan, gather,
                   render_state, handles, term, newline_emitted, received, history,
                   aligned, abort_frames, consumed,
                   framed, probe>>

\* Lines 65-68: the spinner is stopped and Ok(()) is returned.
RawExit ==
    /\ pc = "raw_exit"
    /\ spinners' = stop(spinners, spinner)
    /\ spinner' = 0
    /\ ret' = "Ok"
    /\ pc' = "ret68"
    /\ UNCHANGED <<config, start_abort, inner_ret, raw_mode, abort, producer, chan, gather,
                   render_state, think_spinner, term, newline_emitted, received,
                   history, aligned, abort_frames, consumed,
                   framed, probe>>

\* ----------------------------------------------------------- specification
Producer == Send \/ SendDone \/ CloseTx

Markdown ==
    \/ EnableRawMode \/ TerminalSize \/ InnerStart \/ LoopHead
    \/ GatherRecvText \/ GatherRecvDone \/ GatherClosed \/ GatherTimeout
    \/ ProcessTextErr \/ ProcessText \/ ProcessDone \/ PollAbort \/ Cleanup
    \/ DisableRawMode \/ Return

Raw == RawStart \/ RawHead \/ RawRecvText \/ RawRecvDone \/ RawRecvNone \/ RawExit

Next == Producer \/ SetAbort \/ Markdown \/ Raw

\* Both entry points, every mode, fixed during the stream.
Spec == Init /\ [][Next]_vars

\* markdown_stream with the mode changed during the stream.
InitMode ==
    /\ InitWith({"markdown_stream"}, Modes, {Scenario(ATBC, TagBounds)},
                     Widths, {FALSE})
    /\ probe = NoProbe

NextMode == Producer \/ ChangeMode \/ Markdown

ModeSpec == InitMode /\ [][NextMode]_vars

\* markdown_stream in Hide mode, the stream cut inside its tags too.
InitCut ==
    /\ InitWith({"markdown_stream"}, {"Hide"},
                    {Scenario(ATBC, TagBounds \cup InTag)}, Widths, {FALSE})
    /\ probe = NoProbe

NextCut == Producer \/ Markdown

CutSpec == InitCut /\ [][NextCut]_vars

\* The consumer task keeps running and the timer of gather_events fires; the
\* producer and the user are free to do nothing.
InitFair ==
    /\ InitWith({"markdown_stream", "raw_stream"}, {"Hide"},
                     {Scenario(<<"a", "\n", "b">>, 1..2)}, Widths, {FALSE})
    /\ probe = NoProbe

FairSpec == InitFair /\ [][Next]_vars /\ WF_vars(Markdown) /\ WF_vars(Raw)

\* The stream of test_markdown_stream_thinking (lines 373-377), each word
\* shortened to one character: "H", "<think>P\n", "Q</think>", "D", Done.
TestStream == <<"H">> \o OPEN \o <<"P", "\n", "Q">> \o CLOSE \o <<"D">>

\* The ends of the first three fragments of the test.
TestCuts == {1, 10, 19}

\* Lines 362-363 and 380: Show mode, the abort signal not set.
InitTest ==
    /\ InitWith({"markdown_stream"}, {"Show"},
                     {Scenario(TestStream, TestCuts)}, Widths, {FALSE})
    /\ probe = NoProbe

NextTest == Producer \/ Markdown

TestSpec == InitTest /\ [][NextTest]_vars

\* need_rows on its own.  A text is given by its display width: the widths
\* of short texts (the empty text included) and the widths around 2^16.
ProbeWidths == (0..MaxProbeWidth) \cup ((U16 - ProbeMargin)..(U16 + ProbeMargin))

ProbeColumns == 1..MaxProbeColumns

InitRows ==
    /\ InitWith({"need_rows"}, {"Default"}, {Scenario(<<>>, {})}, Widths, {FALSE})
    /\ probe \in [width : ProbeWidths, columns : ProbeColumns, rows : {NONE}]

\* Lines 453-456: need_rows returns.
NeedRows ==
    /\ fn = "need_rows" /\ pc = "start"
    /\ probe' = [probe EXCEPT !.rows = div_ceil(buffer_width(probe.width), probe.columns)]
    /\ pc' = "ret455"
    /\ ret' = "Ok"
    /\ UNCHANGED <<inner_ret, raw_mode, columns, abort, mode, mode_changes, fn,
                   producer, chan, gather, render_state, handles, term,
                   newline_emitted, received, history, aligned, start_abort,
                   abort_frames, consumed, framed>>

\* Line 327 for a buffer without line break of the probe's display width:
\* buffer_rows = need_rows(&output, columns).
AssignRows ==
    /\ fn = "need_rows" /\ pc = "ret455"
    /\ buffer_rows' = probe.rows
    /\ pc' = "line327"
    /\ UNCHANGED <<ret, inner_ret, raw_mode, columns, abort, mode, mode_changes, fn,
                   producer, chan, gather, buffer, in_think_block, handles, term,
                   newline_emitted, received, history, aligned, start_abort,
                   abort_frames, consumed, framed, probe>>

NextRows == NeedRows \/ AssignRows

RowsSpec == InitRows /\ [][NextRows]_vars


\* ================================================================= claims
\* markdown_stream processed the Done event and returned from the frame loop.
StreamEnded == fn = "markdown_stream" /\ done /\ inner_ret = "Ok"

\* The characters of the reasoning text and of the tags of ATBC.
Hidden == {"B"} \cup CharsOf(OPEN) \cup CharsOf(CLOSE)

NotBlank(cell) == cell[1] # " "

\* What the terminal shows, row after row, blanks left out.
Displayed(scr) == SelectSeq(Join(scr.rows), NotBlank)

\* C1: in Hide mode, for "A<think>B</think>C" cut into frames at any of the
\* scenario's positions (inside the tag literals too), the final text handed
\* to the renderer over all frames is exactly "AC", and no character of "B"
\* or of the tags is ever written.
C1_HideYieldsAC ==
    (fn = "markdown_stream" /\ mode = "Hide" /\ stream = ATBC)
    => /\ written \cap Hidden = {}
       /\ StreamEnded => handed = <<"A", "C">>

\* C2: in Show mode, for "A<think>B</think>C" split into frames at tag
\* boundaries, what is displayed after the stream ended is "A", the styled
\* "B", then "C": nothing is erased by the redraw and "A" is shown once.
C2_ShowKeepsOrder ==
    (mode = "Show" /\ stream = ATBC /\ aligned /\ StreamEnded)
    => Displayed(screen) = <<<<"A", FALSE>>, <<"B", TRUE>>, <<"C", FALSE>>>>


\* The producer dropped the sender without ever sending Done.
ClosedWithoutDone == ~tx_open /\ ~done_sent

\* C3: if the channel is closed without a Done ever sent and cancellation is
\* never set, markdown_stream_inner and raw_stream each eventually return:
\* neither loops forever on the closed channel.
C3_ClosedEndsStream == ClosedWithoutDone ~> (ret # "none" \/ abort)


\* markdown_stream has returned to its caller after raw mode was enabled and
\* without reaching the failure of disable_raw_mode itself.
ReturnedAfterRaw == fn = "markdown_stream" /\ pc \in {"ret27", "ret36"}

\* C4: on every exit path of markdown_stream after raw mode was enabled
\* (normal return, failure of the width query, error of the frame loop), raw
\* mode has been disabled before the function returns.
C4_RawModeRestored == ReturnedAfterRaw => ~raw_mode


\* markdown_stream has returned from the width query, from the end of the
\* function or from disable_raw_mode.
ReturnedPastEnable == fn = "markdown_stream" /\ pc \in {"ret27", "ret31", "ret36"}

\* C5: whenever markdown_stream returns an error (width query, frame loop,
\* disabling raw mode) a trailing line break has been emitted before it
\* returns, and when it returns Ok none is emitted.
C5_NewlineOnError == ReturnedPastEnable => (newline_emitted <=> ret = "Err")


\* The text of a frame: the text of its first event when that is a Text.
FrameText(ev) == IF ev # <<>> /\ ev[1].type = "Text" THEN ev[1].text ELSE <<>>

\* A frame, or what is left of it: a Text only first, a Done only last.
FrameShape(ev) ==
    /\ Len(ev) <= 2
    /\ \A i \in 1..Len(ev) : /\ ev[i].type = "Text" => i = 1
                             /\ ev[i].type = "Done" => i = Len(ev)

\* The texts of the events waiting in the channel, in order.
InFlight == Join([i \in 1..Len(chan) |->
                     IF chan[i].type = "Text" THEN chan[i].text ELSE <<>>])

\* gather_events returns a frame to the loop of line 91.
GatherReturns == pc = "gather" /\ pc' = "for"

\* C6: gather_events never loses, duplicates or reorders text.  A frame holds
\* at most one Text, the deltas of the call joined in arrival order, and a
\* Done only last; the frame texts joined are the deltas received, and once
\* Done is returned they are all the deltas sent.
C6_GatherKeepsText ==
    /\ [](fn = "markdown_stream"
          => /\ FrameShape(events)
             /\ received \o InFlight = SubSeq(stream, 1, sent)
             /\ pc # "gather" => framed = received
             /\ (done /\ pc # "gather") => framed = stream)
    /\ [][GatherReturns
          => /\ FrameShape(events')
             /\ FrameText(events') = Join(texts')
             /\ (texts' = <<>> => (events' = <<>> \/ events'[1].type = "Done"))
             /\ done' <=> (events' # <<>> /\ events'[Len(events')].type = "Done")]_vars

\* A frame of two deltas joined, followed by Done, has been returned.
C6_Witness ==
    /\ pc = "for" /\ Len(texts) = 2 /\ done
    /\ Len(events) = 2 /\ events[1].type = "Text" /\ events[2].type = "Done"
    /\ framed = stream


\* The text with each tab replaced by four spaces.
Expand(text) ==
    Join([i \in 1..Len(text) |->
             IF text[i] = "\t" THEN <<" ", " ", " ", " ">> ELSE <<text[i]>>])

\* The text of the frame that the loop of line 91 has not processed yet.
PendingText ==
    IF pc = "for" /\ events # <<>> /\ events[1].type = "Text"
    THEN events[1].text ELSE <<>>

\* C7: for a delta sequence with no tag literal, in every mode and under
\* every batching into frames, the text printed as finalized complete lines
\* followed by the content of buffer is the input received so far with each
\* tab replaced by four spaces, and at the end of the stream the whole input.
C7_TagFreeTextKept ==
    (fn = "markdown_stream" /\ stream = Plain /\ inner_ret # "Err")
    => /\ finalized \o buffer \o Expand(PendingText) = Expand(framed)
       /\ StreamEnded => finalized \o buffer = Expand(stream)

\* The tag-free stream, with its tab and its two line breaks, has been
\* rendered to the end: two lines finalized and "c" left in buffer.
C7_Witness ==
    /\ stream = Plain /\ StreamEnded
    /\ finalized = <<"a", " ", " ", " ", " ", "\n", "b", "\n">>
    /\ buffer = <<"c">>


\* The loop 'outer is at its head with the abort signal set.
AbortSeenAtHead == fn = "markdown_stream" /\ pc = "loop_head" /\ abort

\* C8: cancellation is honoured only between frames.  The loop is left (and
\* Ok returned) only with every event of the returned frame processed; with
\* the signal set the head of the loop leaves it, so at most one frame is
\* gathered after the signal is set.
C8_AbortBetweenFrames ==
    /\ [](fn = "markdown_stream"
          => /\ pc = "cleanup" => events = <<>>
             /\ inner_ret = "Ok" => events = <<>>
             /\ abort_frames <= 1)
    /\ [][(AbortSeenAtHead /\ pc' # pc) => (pc' = "cleanup" /\ events' = <<>>)]_vars
    /\ [][(pc = "cleanup" /\ pc' # pc) => inner_ret' = "Ok"]_vars

\* A frame with text was gathered after the signal was set, was rendered,
\* and the loop was then left without a Done.
C8_Witness ==
    /\ fn = "markdown_stream" /\ abort /\ abort_frames = 1
    /\ texts # <<>> /\ ~done /\ handed # <<>>
    /\ events = <<>> /\ inner_ret = "Ok"


\* markdown_stream_inner was entered with the abort signal already set.
StartedAborted == fn = "markdown_stream" /\ start_abort

\* C9: if the abort signal is already set when markdown_stream_inner starts,
\* it returns Ok without consuming any event and without writing anything,
\* with the "Generating" indicator stopped and no "Thinking" indicator
\* running.
C9_AbortedAtStart ==
    StartedAborted
    => /\ consumed = 0 /\ received = <<>>
       /\ written = {} /\ screen = EmptyScreen /\ ~unflushed
       /\ pc \notin {"gather", "for"}
       /\ inner_ret # "none"
          => /\ inner_ret = "Ok"
             /\ ~Running(spinners, "Generating")
             /\ ~Running(spinners, "Thinking")

\* markdown_stream_inner has returned after starting with the signal set,
\* while the producer had events waiting in the channel.
C9_Witness == StartedAborted /\ inner_ret = "Ok" /\ chan # <<>> /\ spinners # <<>>


\* markdown_stream_inner has returned, with Ok or with an error.
InnerReturned == fn = "markdown_stream" /\ inner_ret # "none"

\* C10: every progress indicator started by markdown_stream_inner has been
\* stopped before the function returns, on every exit path (Done,
\* cancellation, error return of a write, of the cursor query or of the
\* abort poll).
C10_SpinnersStopped ==
    InnerReturned => \A i \in 1..Len(spinners) : ~spinners[i][2]


\* Whether s is the end of t.
Suffix(s, t) == Len(s) <= Len(t) /\ SubSeq(t, Len(t) - Len(s) + 1, Len(t)) = s

\* The cells that show a text printed unstyled, blanks left out.
PlainCells(text) ==
    LET shown == SelectSeq([i \in 1..Len(text) |-> <<text[i], FALSE>>], NotBlank)
    IN shown

\* The terminal shows the content of buffer last, and the writer is flushed.
BufferShown == ~unflushed /\ Suffix(PlainCells(buffer), Displayed(screen))

\* The for loop of line 91 takes the Done event of the frame.
DoneTaken == pc = "for" /\ events # <<>> /\ Head(events).type = "Done" /\ pc' # pc

\* Done has been received by gather_events and the loop is past gathering.
DoneReceived == fn = "markdown_stream" /\ done /\ pc # "gather"

\* C11: when a frame holds a Done, the Text coalesced into the same frame is
\* processed first, then the loop is left and Ok is returned with no further
\* event received, even with a non-empty buffer; the content of buffer has
\* been written to the terminal by then.
C11_DoneEndsStream ==
    /\ [](StreamEnded => (events = <<>> /\ BufferShown))
    /\ [][DoneTaken => (pc' = "cleanup" /\ events' = <<>> /\ handed' = handed)]_vars
    /\ [][DoneReceived => consumed' = consumed]_vars
    /\ [][(DoneReceived /\ pc = "cleanup" /\ pc' # pc) => inner_ret' = "Ok"]_vars

\* The last frame held a Text and the Done; the Text was rendered and the
\* function returned Ok with a non-empty buffer.
C11_Witness ==
    /\ StreamEnded /\ texts # <<>> /\ buffer # <<>> /\ ret = "Ok"
    /\ framed = stream


\* The character of the label "Thinking:" that no text of the test's stream
\* holds (its reasoning text begins with the word "Thinking" itself).
ThinkingLabel == {":"}

\* The test's stream has been processed to its Done in Show mode.
TestEnded == mode = "Show" /\ stream = TestStream /\ StreamEnded

\* C12: in Show mode, for final text, a two-line reasoning span split over
\* two fragments, and final text after it, what is written contains the
\* leading text, a "Thinking:" label, both parts of the reasoning text, the
\* trailing text, and "\r\n" in place of the reasoning text's line break.
\* (Stated on the set of characters written: each of these must occur.)
C12_ShowTestOutput ==
    TestEnded
    => ({"H", "P", "Q", "D", "\r", "\n"} \cup ThinkingLabel) \subseteq written


\* need_rows has returned for the probe's display width and columns.
RowsReturned == fn = "need_rows" /\ probe.rows # NONE

\* ceil(max(1, width) / columns), on unbounded integers.
CeilRows(width, cols) ==
    LET w == IF width < 1 THEN 1 ELSE width
    IN CHOOSE r \in 0..w : (r - 1) * cols < w /\ w <= r * cols

\* C13: need_rows returns at least 1 for every text and every columns > 0
\* (1 for the empty text), equals ceil(max(1, display_width) / columns), and
\* is non-decreasing in the display width for fixed columns, for every
\* display width, those at or above 2^16 included.
C13_RowsEstimate ==
    RowsReturned
    => /\ probe.rows >= 1
       /\ probe.width = 0 => probe.rows = 1
       /\ probe.rows = CeilRows(probe.width, probe.columns)
       /\ \A w \in ProbeWidths :
             w <= probe.width
             => div_ceil(buffer_width(w), probe.columns) <= probe.rows


\* The frame loop of markdown_stream_inner is between two events, the mode
\* being Replace for the whole stream.
ReplaceBoundary ==
    fn = "markdown_stream" /\ mode = "Replace" /\ pc \in {"loop_head", "gather", "for"}

\* The number of spinners with the label that are running.
RunningCount(label) ==
    Cardinality({i \in 1..Len(spinners) : spinners[i] = <<label, TRUE>>})

\* C14: for a stream processed entirely in Replace mode, at every frame
\* boundary the "Thinking" indicator is running if and only if
\* in_think_block is true (one indicator, held by think_spinner), whether or
\* not the "Generating" indicator is still running.
C14_ThinkingWhileOpen ==
    ReplaceBoundary
    => /\ Running(spinners, "Thinking") <=> in_think_block
       /\ think_spinner # 0 <=> in_think_block
       /\ RunningCount("Thinking") <= 1
       /\ think_spinner # 0 => spinners[think_spinner] = <<"Thinking", TRUE>>

\* The span of the stream was opened in one frame and closed in a later
\* one: the "Thinking" indicator was started and has been stopped.
C14_Witness ==
    /\ ReplaceBoundary /\ pc = "loop_head" /\ ~in_think_block
    /\ \E i \in 1..Len(spinners) : spinners[i] = <<"Thinking", FALSE>>


\* Whether the pattern stands in the text at the 1-based position i.
StartsAt(text, i, pat) ==
    i + Len(pat) - 1 <= Len(text) /\ SubSeq(text, i, i + Len(pat) - 1) = pat

RECURSIVE RefScan(_, _, _)
\* The reference scan, left to right from position i: an opening tag opens
\* a span, the first closing tag after it closes the span.
RefScan(text, i, open) ==
    IF i > Len(text) THEN open
    ELSE IF ~open /\ StartsAt(text, i, OPEN) THEN RefScan(text, i + Len(OPEN), TRUE)
    ELSE IF open /\ StartsAt(text, i, CLOSE) THEN RefScan(text, i + Len(CLOSE), FALSE)
    ELSE RefScan(text, i + 1, open)

\* Every frame returned so far has been processed to its last Text.
FramesProcessed ==
    /\ fn = "markdown_stream"
    /\ pc \in {"loop_head", "gather", "for", "cleanup"}
    /\ PendingText = <<>>

TextPending == fn = "markdown_stream" /\ pc = "for" /\ PendingText # <<>>

\* The final text the filter of the mode hands to the redraw of lines
\* 274-330 for the pending Text event (none when the event ends in continue).
HandedIn(m) ==
    LET st == ThinkFilter(m, FrameStart(Head(events).text))
    IN IF st.cont THEN <<>> ELSE st.text

\* C16: the span scan is mode-independent: for the same frame, with the
\* same state carried from the frames before, the final text the filter
\* hands to the incremental renderer is the same under Hide, Replace, Show
\* and Default.
C16_FinalTextSameInAllModes ==
    TextPending => \A m \in Modes : HandedIn(m) = HandedIn("Hide")


\* In Show mode, outside a span and with a non-empty buffer, the pending
\* frame holds an opening tag: reasoning text found in this frame is about
\* to be written.
ShowSpanPending ==
    /\ TextPending /\ mode = "Show" /\ ~in_think_block /\ buffer # <<>>
    /\ \E i \in 1..Len(PendingText) : StartsAt(PendingText, i, OPEN)

\* C17: in Show mode, when reasoning text of a span found in the current
\* frame is written while buffer is non-empty, the buffer is first rendered
\* through render_line, printed and reset (buffer empty, buffer_rows = 1),
\* whether the span closes in the frame or stays open and whether or not
\* final text precedes the opening tag.
C17_ShowFlushesBufferFirst ==
    ShowSpanPending
    => LET st == ShowFilter(FrameStart(PendingText))
       IN /\ st.cmds # <<>>
          /\ st.cmds[1] = CmdPrint(render_line(buffer))
          /\ st.buffer = <<>>
          /\ st.buffer_rows = 1


\* The command prints something that takes room on the terminal.
PrintsVisible(cmd) == cmd.op = "Print" /\ display_width(cmd.s) > 0

\* C18: in every frame and every mode, nothing new is written for the frame
\* (final text, text preceding a span, styled reasoning text) before the
\* cursor has been moved to the redraw anchor and the rows of buffer have
\* been cleared: in a frame that is redrawn, the filter, which runs before
\* the anchor and the clear, prints nothing visible.
C18_ClearBeforeWrite ==
    TextPending
    => LET st == ThinkFilter(mode, FrameStart(PendingText))
       IN (~st.cont /\ st.text # <<>>)
          => \A i \in 1..Len(st.cmds) : ~PrintsVisible(st.cmds[i])


\* The frame loop is between two events.
FrameBoundary ==
    fn = "markdown_stream" /\ pc \in {"loop_head", "gather", "for", "cleanup"}

\* The text holds a line break.
HasLineBreak(text) == \E i \in 1..Len(text) : text[i] = "\n"

\* The frames processed so far hold no tag and end with a line break.
LineJustEnded ==
    /\ FrameBoundary /\ PendingText = <<>> /\ stream = Plain
    /\ framed # <<>> /\ framed[Len(framed)] = "\n"

\* Line 327 has assigned buffer_rows for a buffer of the probe's width.
RowsAssigned == fn = "need_rows" /\ pc = "line327"

\* C19: at every frame boundary buffer holds no line break and buffer_rows
\* is at least 1 and equals the rows the buffer occupies,
\* ceil(max(1, display_width(buffer)) / columns), for every width of the
\* buffer; after deltas ending in a line break buffer is empty and
\* buffer_rows is 1.
C19_BufferRowsTracked ==
    /\ FrameBoundary
       => /\ ~HasLineBreak(buffer)
          /\ buffer_rows >= 1
          /\ buffer_rows = CeilRows(display_width(buffer), columns)
    /\ LineJustEnded => (buffer = <<>> /\ buffer_rows = 1)
    /\ RowsAssigned
       => /\ buffer_rows >= 1
          /\ buffer_rows = CeilRows(probe.width, probe.columns)


\* raw_stream runs with the abort signal set.
RawAborted == fn = "raw_stream" /\ abort /\ ret = "none"

\* raw_stream has returned with the "Generating" indicator stopped.
RawReturned == fn = "raw_stream" /\ ret # "none" /\ ~Running(spinners, "Generating")

\* C20: raw_stream stays responsive to cancellation: once the abort signal
\* is set, also while the channel is open and the producer sends nothing
\* more, raw_stream eventually observes it, stops the "Generating" indicator
\* and returns.
C20_RawAbortResponsive == RawAborted ~> RawReturned


\* markdown_stream_inner has returned Ok.
InnerReturnedOk == fn = "markdown_stream" /\ inner_ret = "Ok"

\* C21: everything markdown_stream_inner queues on the writer has been
\* flushed by the time it returns Ok; no frame (a Show or Default frame whose
\* span closes in it and leaves no final text, followed by Done or
\* cancellation) leaves queued text unflushed at return.
C21_FlushedAtReturn == InnerReturnedOk => ~unflushed


====
